---------------------------- MODULE Spec2Model ----------------------------
(***************************************************************************)
(* Duration / TimeUnit arithmetic and rendering of hifitime                *)
(* (src/src/duration.rs).                                                  *)
(*                                                                         *)
(* The stored value of a Duration is a Decimal: an exact ratio kept in     *)
(* sign-magnitude form (sign, numerator, denominator).  TLC's integers are *)
(* 32 bits wide and a day holds 8.64e13 nanoseconds, so magnitudes are     *)
(* kept as little-endian sequences of limbs in base 10^4 and the exact     *)
(* arithmetic of the Decimal type is spelled out on them.                  *)
(***************************************************************************)
EXTENDS Integers, Sequences, FiniteSets, TLC

(***************************************************************************)
(* Unbounded naturals: <<>> is 0, <<123, 4>> is 4 * 10^4 + 123.            *)
(*                                                                         *)
(* The recursions are functions on tuples: TLC evaluates the argument of a *)
(* function application once, before the body, so an intermediate result  *)
(* is never computed twice.  An operator only packs its arguments.         *)
(***************************************************************************)
Base == 100 * 100

NatSeq == Seq(Nat)

Rest(a) == IF a = <<>> THEN <<>> ELSE Tail(a)
Low(a) == IF a = <<>> THEN 0 ELSE Head(a)

NNormF[a \in NatSeq] ==
    IF a = <<>> THEN <<>>
    ELSE IF a[Len(a)] = 0 THEN NNormF[SubSeq(a, 1, Len(a) - 1)]
    ELSE a

NNorm(a) == NNormF[a]

NFromIntF[i \in Nat] ==
    IF i = 0 THEN <<>> ELSE <<i % Base>> \o NFromIntF[i \div Base]

NFromInt(i) == NFromIntF[i]

\* t = <<a, b, carry>>: a + b + carry
NAddF[t \in NatSeq \X NatSeq \X Nat] ==
    IF t[1] = <<>> /\ t[2] = <<>> THEN (IF t[3] = 0 THEN <<>> ELSE <<t[3]>>)
    ELSE LET s == Low(t[1]) + Low(t[2]) + t[3]
         IN  <<s % Base>> \o NAddF[<<Rest(t[1]), Rest(t[2]), s \div Base>>]

NAdd(a, b) == NAddF[<<a, b, 0>>]

\* t = <<a, b, borrow>>: the limbs of a - b - borrow, for a >= b + borrow
NSubF[t \in NatSeq \X NatSeq \X Nat] ==
    IF t[1] = <<>> THEN <<>>
    ELSE LET s == Head(t[1]) - Low(t[2]) - t[3]
         IN  IF s < 0 THEN <<s + Base>> \o NSubF[<<Tail(t[1]), Rest(t[2]), 1>>]
             ELSE <<s>> \o NSubF[<<Tail(t[1]), Rest(t[2]), 0>>]

NSub(a, b) == NNormF[NSubF[<<a, b, 0>>]]

\* t = <<a, b, i>>: -1, 0, 1 as a < b, a = b, a > b on the limbs 1..i
NCmpF[t \in NatSeq \X NatSeq \X Nat] ==
    IF t[3] = 0 THEN 0
    ELSE IF t[1][t[3]] < t[2][t[3]] THEN -1
    ELSE IF t[1][t[3]] > t[2][t[3]] THEN 1
    ELSE NCmpF[<<t[1], t[2], t[3] - 1>>]

NCmpLenF[t \in NatSeq \X NatSeq] ==
    IF Len(t[1]) < Len(t[2]) THEN -1
    ELSE IF Len(t[1]) > Len(t[2]) THEN 1
    ELSE NCmpF[<<t[1], t[2], Len(t[1])>>]

NCmp(a, b) == NCmpLenF[<<a, b>>]

\* t = <<a, k, carry>>: a * k + carry for one limb k
NMulSmallF[t \in NatSeq \X Nat \X Nat] ==
    IF t[1] = <<>> THEN (IF t[3] = 0 THEN <<>> ELSE <<t[3]>>)
    ELSE LET s == Head(t[1]) * t[2] + t[3]
         IN  <<s % Base>> \o NMulSmallF[<<Tail(t[1]), t[2], s \div Base>>]

NMulSmall(a, k) == NNormF[NMulSmallF[<<a, k, 0>>]]

NShiftF[a \in NatSeq] == IF a = <<>> THEN <<>> ELSE <<0>> \o a

NMulF[t \in NatSeq \X NatSeq] ==
    IF t[1] = <<>> \/ t[2] = <<>> THEN <<>>
    ELSE NAdd(NMulSmall(t[1], Head(t[2])), NShiftF[NMulF[<<t[1], Tail(t[2])>>]])

NMul(a, b) == NMulF[<<a, b>>]

\* t = <<a, i, k, r>>: (r * Base^i + a[1..i]) mod k for one limb k # 0
NModSmallF[t \in NatSeq \X Nat \X Nat \X Nat] ==
    IF t[2] = 0 THEN t[4]
    ELSE NModSmallF[<<t[1], t[2] - 1, t[3], (t[4] * Base + t[1][t[2]]) % t[3]>>]

NModSmall(a, k) == NModSmallF[<<a, Len(a), k, 0>>]

\* t = <<a, i, k, r>>: the limbs of (r * Base^i + a[1..i]) div k
NDivSmallF[t \in NatSeq \X Nat \X Nat \X Nat] ==
    IF t[2] = 0 THEN <<>>
    ELSE LET s == t[4] * Base + t[1][t[2]]
         IN  Append(NDivSmallF[<<t[1], t[2] - 1, t[3], s % t[3]>>], s \div t[3])

NDivSmall(a, k) == NNormF[NDivSmallF[<<a, Len(a), k, 0>>]]

\* t = <<r, b, lo, hi>>: the largest k in lo..hi with k * b <= r (lo qualifies)
NDigitF[t \in NatSeq \X NatSeq \X Nat \X Nat] ==
    IF t[3] = t[4] THEN t[3]
    ELSE LET mid == (t[3] + t[4] + 1) \div 2
         IN  IF NCmp(NMulSmall(t[2], mid), t[1]) <= 0
             THEN NDigitF[<<t[1], t[2], mid, t[4]>>]
             ELSE NDigitF[<<t[1], t[2], t[3], mid - 1>>]

\* t = <<r, b>>: r div b for b <= r < Base * b and b of two limbs or more.
\* The leading limbs bracket the quotient: with rt the limbs of r above the
\* leading limb of b, and bt the leading five digits of b,
\* rt * 10 / (bt + 1) <= r / b < (rt * 10 + 10) / bt
NBracketF[t \in NatSeq \X NatSeq] ==
    LET L  == Len(t[2])
        rt == IF Len(t[1]) > L THEN t[1][L + 1] * Base + t[1][L] ELSE t[1][L]
        bt == t[2][L] * 10 + t[2][L - 1] \div 1000
        lo == (rt * 10) \div (bt + 1)
        hi == (rt * 10 + 9) \div bt
    IN  NDigitF[<<t[1], t[2], IF lo < 1 THEN 1 ELSE lo, IF hi > Base - 1 THEN Base - 1 ELSE hi>>]

\* t = <<r, b>>: r div b for r < Base * b
NQuotDigitF[t \in NatSeq \X NatSeq] ==
    IF NCmp(t[1], t[2]) < 0 THEN 0 ELSE NBracketF[t]

\* t = <<r, b, k>>: <<k, r - k * b>>
NTakeF[t \in NatSeq \X NatSeq \X Nat] ==
    <<t[3], IF t[3] = 0 THEN t[1] ELSE NSub(t[1], NMulSmall(t[2], t[3]))>>

\* t = <<r, b>>: <<r div b, r mod b>> for r < Base * b
NDivDigitF[t \in NatSeq \X NatSeq] == NTakeF[<<t[1], t[2], NQuotDigitF[t]>>]

\* One step of the long division of a by b.  t = <<i, q, kr>>: limb i of a was
\* divided, giving the quotient digit kr[1] and the remainder kr[2]
NDivStateF[t \in Nat \X NatSeq \X (Nat \X NatSeq)] ==
    <<t[1] - 1, <<t[3][1]>> \o t[2], t[3][2]>>

\* t = <<a, b, <<i, q, r>>>>: the limbs a[1..i] are left to divide, q holds the
\* quotient digits found and r the running remainder: <<quotient, remainder>>
NDivF[t \in NatSeq \X NatSeq \X (Nat \X NatSeq \X NatSeq)] ==
    IF t[3][1] = 0 THEN <<NNorm(t[3][2]), t[3][3]>>
    ELSE NDivF[<<t[1], t[2],
                 NDivStateF[<<t[3][1], t[3][2],
                              NDivDigitF[<<NNorm(<<t[1][t[3][1]]>> \o t[3][3]), t[2]>>]>>]>>]

\* t = <<a, b>>, b # 0; a one-limb divisor is divided by directly
NDivModF[t \in NatSeq \X NatSeq] ==
    IF Len(t[2]) = 1
    THEN <<NDivSmall(t[1], t[2][1]), NFromInt(NModSmall(t[1], t[2][1]))>>
    ELSE NDivF[<<t[1], t[2], <<Len(t[1]), <<>>, <<>>>>>>]

NDivMod(a, b) == NDivModF[<<a, b>>]

NDiv(a, b) == NDivMod(a, b)[1]
NMod(a, b) == NDivMod(a, b)[2]

NOne == <<1>>

NSquareF[a \in NatSeq] == NMul(a, a)

\* t = <<k, e>>: k^e by squaring, which keeps the recursion shallow
NPowF[t \in Nat \X Nat] ==
    IF t[2] = 0 THEN NOne
    ELSE IF t[2] % 2 = 1 THEN NMulSmall(NPowF[<<t[1], t[2] - 1>>], t[1])
    ELSE NSquareF[NPowF[<<t[1], t[2] \div 2>>]]

NPow(k, e) == NPowF[<<k, e>>]

(***************************************************************************)
(* Decimal: the extended-precision scalar (crate::Decimal), an exact ratio *)
(* in lowest terms with a sign, or one of the two non-finite values a      *)
(* ratio with a zero denominator yields.  The sign of a zero is not        *)
(* modelled: zero compares equal to nil and prints as "0", which is what   *)
(* the assertions of time_unit (duration.rs:376-416) require.              *)
(***************************************************************************)
Decimals == [k : {"rat", "inf", "nan"}, neg : BOOLEAN, num : NatSeq, den : NatSeq]

\* The ratios that are multiplied and added are in lowest terms, and of two
\* of them one has a denominator and a numerator made of the primes 2, 3, 5
\* and 7 (a unit, a decimal quantity, a sum of such): these primes are all
\* a product or a sum can have in common with its denominator.  Common
\* factors are cancelled in chunks (powers first) to keep the recursion
\* shallow, and the chunks of a prime are skipped when the prime itself is
\* no common factor; what is left has no common prime.  A ratio built from
\* two arbitrary integers is reduced by their greatest common divisor
\* (FractionNew).
CancelFactors ==
    <<[f |-> 4096, p |-> 2, skip |-> 4], [f |-> 64, p |-> 2, skip |-> 4],
      [f |-> 2, p |-> 2, skip |-> 4],
      [f |-> 729, p |-> 3, skip |-> 7], [f |-> 27, p |-> 3, skip |-> 7],
      [f |-> 3, p |-> 3, skip |-> 7],
      [f |-> 3125, p |-> 5, skip |-> 10], [f |-> 25, p |-> 5, skip |-> 10],
      [f |-> 5, p |-> 5, skip |-> 10],
      [f |-> 49, p |-> 7, skip |-> 12], [f |-> 7, p |-> 7, skip |-> 12]>>

\* whether k divides a; Base is a multiple of 2 and of 5
Divides(k, a) == IF k \in {2, 5} THEN Low(a) % k = 0 ELSE NModSmall(a, k) = 0

\* t = <<n, d, i>>: n and d with the common factors CancelFactors[i..] removed
CancelF[t \in NatSeq \X NatSeq \X Nat] ==
    IF t[3] > Len(CancelFactors) \/ t[1] = NOne \/ t[2] = NOne THEN <<t[1], t[2]>>
    ELSE IF ~(Divides(CancelFactors[t[3]].p, t[1]) /\ Divides(CancelFactors[t[3]].p, t[2]))
         THEN CancelF[<<t[1], t[2], CancelFactors[t[3]].skip>>]
    ELSE IF Divides(CancelFactors[t[3]].f, t[1]) /\ Divides(CancelFactors[t[3]].f, t[2])
         THEN CancelF[<<NDivSmall(t[1], CancelFactors[t[3]].f),
                        NDivSmall(t[2], CancelFactors[t[3]].f), t[3]>>]
         ELSE CancelF[<<t[1], t[2], t[3] + 1>>]

\* t = <<a, b>>: the greatest common divisor, by Euclid's algorithm
GcdF[t \in NatSeq \X NatSeq] ==
    IF t[2] = <<>> THEN t[1] ELSE GcdF[<<t[2], NMod(t[1], t[2])>>]

\* t = <<n, d, g>>: n and d divided by their common divisor g
ReduceF[t \in NatSeq \X NatSeq \X NatSeq] ==
    IF t[3] = NOne THEN <<t[1], t[2]>> ELSE <<NDiv(t[1], t[3]), NDiv(t[2], t[3])>>

Zero == [k |-> "rat", neg |-> FALSE, num |-> <<>>, den |-> NOne]

\* t = <<neg, <<n, d>>>>
RatioF[t \in BOOLEAN \X (NatSeq \X NatSeq)] ==
    IF t[2][1] = <<>> THEN Zero
    ELSE [k |-> "rat", neg |-> t[1], num |-> t[2][1], den |-> t[2][2]]

\* the ratio (-1)^neg * n / d in lowest terms, d # 0
Rat(neg, n, d) == RatioF[<<neg, CancelF[<<n, d, 1>>]>>]

\* t = <<neg, <<n, d>>>>, n / d in lowest terms, d # 0
RatOfF[t \in BOOLEAN \X (NatSeq \X NatSeq)] == Rat(t[1], t[2][1], t[2][2])

Infinity(neg) == [k |-> "inf", neg |-> neg, num |-> NOne, den |-> <<>>]
NaN == [k |-> "nan", neg |-> FALSE, num |-> <<>>, den |-> <<>>]

IsFinite(x) == x.k = "rat"
IsZero(x) == x.k = "rat" /\ x.num = <<>>

DNegF[x \in Decimals] ==
    IF x.k = "nan" \/ IsZero(x) THEN x ELSE [x EXCEPT !.neg = ~x.neg]

DNeg(x) == DNegF[x]
DAbs(x) == [x EXCEPT !.neg = FALSE]

\* x * y; a non-finite factor gives a non-finite product
DMulF[t \in Decimals \X Decimals] ==
    IF t[1].k = "nan" \/ t[2].k = "nan" THEN NaN
    ELSE IF t[1].k = "inf" \/ t[2].k = "inf"
         THEN IF IsZero(t[1]) \/ IsZero(t[2]) THEN NaN
              ELSE Infinity(t[1].neg # t[2].neg)
    ELSE Rat(t[1].neg # t[2].neg, NMul(t[1].num, t[2].num), NMul(t[1].den, t[2].den))

DMul(x, y) == DMulF[<<x, y>>]

\* x / y; a zero divisor or a non-finite operand gives a non-finite quotient
DDivF[t \in Decimals \X Decimals] ==
    IF t[1].k = "nan" \/ t[2].k # "rat" THEN NaN
    ELSE IF t[1].k = "inf" THEN Infinity(t[1].neg # t[2].neg)
    ELSE IF IsZero(t[2]) THEN (IF IsZero(t[1]) THEN NaN ELSE Infinity(t[1].neg))
    ELSE Rat(t[1].neg # t[2].neg, NMul(t[1].num, t[2].den), NMul(t[1].den, t[2].num))

DDiv(x, y) == DDivF[<<x, y>>]

\* t = <<xneg, yneg, a, b, d>>: (-1)^xneg * a / d + (-1)^yneg * b / d
DSumF[t \in BOOLEAN \X BOOLEAN \X NatSeq \X NatSeq \X NatSeq] ==
    IF t[1] = t[2] THEN Rat(t[1], NAdd(t[3], t[4]), t[5])
    ELSE IF NCmp(t[3], t[4]) >= 0 THEN Rat(t[1], NSub(t[3], t[4]), t[5])
    ELSE Rat(t[2], NSub(t[4], t[3]), t[5])

\* x + y on finite values
DAddF[t \in Decimals \X Decimals] ==
    DSumF[<<t[1].neg, t[2].neg, NMul(t[1].num, t[2].den), NMul(t[2].num, t[1].den),
            NMul(t[1].den, t[2].den)>>]

DAdd(x, y) == DAddF[<<x, y>>]
DSub(x, y) == DAddF[<<x, DNeg(y)>>]

\* -1, 0, 1 as x < y, x = y, x > y on finite values
DCmpF[t \in Decimals \X Decimals] ==
    IF t[1].neg /\ ~t[2].neg THEN -1
    ELSE IF ~t[1].neg /\ t[2].neg THEN 1
    ELSE IF t[1].neg THEN NCmp(NMul(t[2].num, t[1].den), NMul(t[1].num, t[2].den))
    ELSE NCmp(NMul(t[1].num, t[2].den), NMul(t[2].num, t[1].den))

DLess(x, y) == DCmpF[<<x, y>>] < 0
DLeq(x, y) == DCmpF[<<x, y>>] <= 0

DFloorF[x \in Decimals] ==
    IF x.den = NOne THEN x ELSE Rat(x.neg, NDiv(x.num, x.den), NOne)

\* Decimal::floor: the magnitude is floored and the sign kept, so a negative
\* value goes toward zero.  Display::fmt is written against this (it negates
\* the later components of a negative Duration) and the assertions of
\* time_unit at duration.rs:376-388 and 409-416 hold only with it.
DFloor(x) == DFloorF[x]

(***************************************************************************)
(* f64: a finite double is modelled by the exact ratio it holds.  RoundF64 *)
(* rounds a ratio to the nearest double (53 significant bits, ties to      *)
(* even); the exponent range of a double is not modelled.                  *)
(***************************************************************************)
TwoPow52 == NPow(2, 52)
TwoPow53 == NPow(2, 53)

\* t = <<n, d, e>>: n / d scaled by powers of two into [1, 2), with the
\* exponent: <<n, d, e>>
F64ScaleF[t \in NatSeq \X NatSeq \X Int] ==
    IF NCmp(t[1], NMulSmall(t[2], 4096)) >= 0
    THEN F64ScaleF[<<t[1], NMulSmall(t[2], 4096), t[3] + 12>>]
    ELSE IF NCmp(t[1], NMulSmall(t[2], 2)) >= 0
    THEN F64ScaleF[<<t[1], NMulSmall(t[2], 2), t[3] + 1>>]
    ELSE IF NCmp(NMulSmall(t[1], 4096), t[2]) <= 0
    THEN F64ScaleF[<<NMulSmall(t[1], 4096), t[2], t[3] - 12>>]
    ELSE IF NCmp(t[1], t[2]) < 0
    THEN F64ScaleF[<<NMulSmall(t[1], 2), t[2], t[3] - 1>>]
    ELSE t

\* t = <<neg, m, e>>: (-1)^neg * m * 2^e
F64PackF[t \in BOOLEAN \X NatSeq \X Int] ==
    IF t[3] >= 0 THEN Rat(t[1], NMul(t[2], NPow(2, t[3])), NOne)
    ELSE Rat(t[1], t[2], NPow(2, 0 - t[3]))

\* t = <<neg, <<q, r>>, d, e>>: q + r / d rounded to an integer, ties to even
F64RoundF[t \in BOOLEAN \X (NatSeq \X NatSeq) \X NatSeq \X Int] ==
    LET c  == NCmp(NMulSmall(t[2][2], 2), t[3])
        up == c > 0 \/ (c = 0 /\ NModSmall(t[2][1], 2) = 1)
    IN  F64PackF[<<t[1], IF up THEN NAdd(t[2][1], NOne) ELSE t[2][1], t[4]>>]

\* t = <<neg, <<n, d, e>>>>, n / d in [1, 2)
F64MantF[t \in BOOLEAN \X (NatSeq \X NatSeq \X Int)] ==
    F64RoundF[<<t[1], NDivMod(NMul(t[2][1], TwoPow52), t[2][2]), t[2][2], t[2][3] - 52>>]

\* an integer below 2^53 is a double as it is
RoundF64F[x \in Decimals] ==
    IF ~IsFinite(x) \/ IsZero(x) THEN x
    ELSE IF x.den = NOne /\ NCmp(x.num, TwoPow53) < 0 THEN x
    ELSE F64MantF[<<x.neg, F64ScaleF[<<x.num, x.den, 0>>]>>]

RoundF64(x) == RoundF64F[x]

F64Abs(x) == DAbs(x)
F64Mul(x, y) == RoundF64(DMul(x, y))
F64Div(x, y) == RoundF64(DDiv(x, y))

\* a comparison with a NaN is false
F64LessF[t \in Decimals \X Decimals] ==
    IF t[1].k = "nan" \/ t[2].k = "nan" THEN FALSE
    ELSE IF t[1].k = "inf" THEN t[1].neg /\ ~(t[2].k = "inf" /\ t[2].neg)
    ELSE IF t[2].k = "inf" THEN ~t[2].neg
    ELSE DLess(t[1], t[2])

\* <= in the place of <
F64Leq(x, y) == x.k = "rat" /\ y.k = "rat" /\ DLeq(x, y)

F64Less(x, y) == F64LessF[<<x, y>>]

(***************************************************************************)
(* Numeric quantities: the value (-1)^neg * mant / 10^dec of one of the    *)
(* primitive kinds impl_ops_for_type! is instantiated for.  An integer     *)
(* kind has dec = 0; a float is given by the digits of its decimal form.   *)
(***************************************************************************)
FloatKinds == {"f32", "f64"}
SignedKinds == {"i8", "i16", "i32", "i64"}
UnsignedKinds == {"u8", "u16", "u32", "u64", "u128"}
Kinds == FloatKinds \cup SignedKinds \cup UnsignedKinds

Magnitude(i) == NFromInt(IF i < 0 THEN 0 - i ELSE i)

\* an integer as a Decimal
DInt(i) == Rat(i < 0, Magnitude(i), NOne)
QInt(kind, i) == [kind |-> kind, neg |-> i < 0, mant |-> Magnitude(i), dec |-> 0]
QFloat(kind, m, dec) == [kind |-> kind, neg |-> m < 0, mant |-> Magnitude(m), dec |-> dec]

\* the digits of q with the scale of a float dropped
DecimalFromDigits(q) == Rat(q.neg, q.mant, NOne)

\* Decimal::from(q)
DecimalFrom(q) ==
    IF q.kind \in FloatKinds THEN Rat(q.neg, q.mant, NPow(10, q.dec))
    ELSE Rat(q.neg, q.mant, NOne)

SECONDS_PER_DAY == 86400
SECONDS_PER_HOUR == 3600
SECONDS_PER_MINUTE == 60

TimeUnits == {"Day", "Hour", "Minute", "Second", "Millisecond", "Nanosecond"}

\* the Decimal literals of the module: Decimal::from(SECONDS_PER_DAY),
\* Decimal::from(1e-3), Decimal::from(24.0), ...  Each is a value of its
\* own, so that it is converted once.
DecSecondsPerDay == DecimalFrom(QFloat("f64", SECONDS_PER_DAY, 0))
DecSecondsPerHour == DecimalFrom(QFloat("f64", SECONDS_PER_HOUR, 0))
DecSecondsPerMinute == DecimalFrom(QFloat("f64", SECONDS_PER_MINUTE, 0))
DecOne == DecimalFrom(QFloat("f64", 10, 1))
DecMilli == DecimalFrom(QFloat("f64", 1, 3))
DecNano == DecimalFrom(QFloat("f64", 1, 9))
Dec24 == DecimalFrom(QFloat("f64", 240, 1))
Dec60 == DecimalFrom(QFloat("f64", 600, 1))
Dec1000 == DecimalFrom(QFloat("f64", 10000, 1))
DecMillion == DecimalFrom(QFloat("f64", 1000000, 0))

\* TimeUnit::in_seconds
in_seconds(unit) ==
    CASE unit = "Day"         -> DecSecondsPerDay
      [] unit = "Hour"        -> DecSecondsPerHour
      [] unit = "Minute"      -> DecSecondsPerMinute
      [] unit = "Second"      -> DecOne
      [] unit = "Millisecond" -> DecMilli
      [] unit = "Nanosecond"  -> DecNano

\* Decimal::from(1) / self.in_seconds(), the quotient of each unit
UnitsPerSecond == [unit \in TimeUnits |-> DDiv(DecimalFrom(QInt("i32", 1)), in_seconds(unit))]

\* TimeUnit::from_seconds
from_seconds_factor(unit) == UnitsPerSecond[unit]

\* Duration::from_days .. Duration::from_nanoseconds: the stored seconds
from_days(days) == DMul(days, DecSecondsPerDay)
from_hours(hours) == DMul(hours, DecSecondsPerHour)
from_minutes(minutes) == DMul(minutes, DecSecondsPerMinute)
from_seconds(seconds) == seconds
from_millseconds(ms) == DMul(ms, DecMilli)
from_nanoseconds(ns) == DMul(ns, DecNano)

\* impl Mul<$type> for TimeUnit
Mul(unit, q) ==
    CASE unit = "Day"         -> from_days(DecimalFrom(q))
      [] unit = "Hour"        -> from_hours(DecimalFrom(q))
      [] unit = "Minute"      -> from_minutes(DecimalFrom(q))
      [] unit = "Second"      -> from_seconds(DecimalFrom(q))
      [] unit = "Millisecond" -> from_millseconds(DecimalFrom(q))
      [] unit = "Nanosecond"  -> from_nanoseconds(DecimalFrom(q))

\* impl Add for Duration, impl Sub for Duration
Add(lhs, rhs) == DAdd(lhs, rhs)
Sub(lhs, rhs) == DSub(lhs, rhs)

\* impl Add<TimeUnit> for Duration, impl Sub<TimeUnit> for Duration
AddUnit(lhs, unit) == Add(lhs, Mul(unit, QInt("i32", 1)))
SubUnit(lhs, unit) == Sub(lhs, Mul(unit, QInt("i32", 1)))

\* in_unit through an f64, as in_unit_f64 does
in_unit_rounded(d, unit) == RoundF64(DMul(d, from_seconds_factor(unit)))

\* Duration::in_unit
in_unit(d, unit) == DMul(d, from_seconds_factor(unit))

\* Duration::in_unit_f64
in_unit_f64(d, unit) == RoundF64(in_unit(d, unit))

(***************************************************************************)
(* Duration::from_fraction.  An i64 argument is a sign and a magnitude.    *)
(***************************************************************************)
I64(i) == [neg |-> i < 0, mag |-> Magnitude(i)]
I64Neg(v) == IF v.mag = <<>> THEN v ELSE [v EXCEPT !.neg = ~v.neg]
IsNegative(v) == v.neg /\ v.mag # <<>>
IsPositive(v) == ~v.neg /\ v.mag # <<>>

TwoPow63 == NPow(2, 63)
TwoPow128 == NPow(2, 128)

\* i64::MIN, the one i64 whose magnitude is not an i64, and i64::MAX
I64Min == [neg |-> TRUE, mag |-> TwoPow63]
I64Max == [neg |-> FALSE, mag |-> NSub(TwoPow63, NOne)]

\* whether num.abs() overflows: a panic in a build with overflow checks, a
\* wrap back to i64::MIN in a build without
AbsOverflows(v) == v = I64Min

\* num.abs() as u128 where abs() returns: i64::MIN has no i64 magnitude,
\* abs() wraps back to it and the cast sign-extends
AbsAsU128(v) ==
    IF v.neg /\ v.mag = TwoPow63 THEN NSub(TwoPow128, TwoPow63) ELSE v.mag

\* Fraction::new and Fraction::new_neg on unsigned magnitudes; a zero
\* denominator yields a non-finite ratio, not a fault
FractionNew(n, d) ==
    IF d = <<>> THEN (IF n = <<>> THEN NaN ELSE Infinity(FALSE))
    ELSE RatOfF[<<FALSE, ReduceF[<<n, d, GcdF[<<n, d>>]>>]>>]

FractionNewNeg(n, d) ==
    IF d = <<>> THEN (IF n = <<>> THEN NaN ELSE Infinity(TRUE))
    ELSE RatOfF[<<TRUE, ReduceF[<<n, d, GcdF[<<n, d>>]>>]>>]

\* the sign taken from the denominator alone
DenomPositive(num, denom) == IsPositive(denom)

\* the condition of the if at duration.rs:67
SameSign(num, denom) ==
    (IsNegative(num) /\ IsNegative(denom)) \/ (IsPositive(num) /\ IsPositive(denom))

\* which Fraction constructor from_fraction calls
from_fraction_ctor(num, denom) == IF SameSign(num, denom) THEN "new" ELSE "new_neg"

from_fraction(num, denom, unit) ==
    LET num_u   == AbsAsU128(num)
        denom_u == AbsAsU128(denom)
    IN  IF from_fraction_ctor(num, denom) = "new"
        THEN DMul(FractionNew(num_u, denom_u), in_seconds(unit))
        ELSE DMul(FractionNewNeg(num_u, denom_u), in_seconds(unit))

(***************************************************************************)
(* impl fmt::Display for Duration.  The text is a sequence of components,  *)
(* each the Decimal handed to fmt::Display and the suffix written after    *)
(* it; a component shows a '-' exactly when its Decimal is negative.       *)
(***************************************************************************)
Comp(v, suffix) == [val |-> v, unit |-> suffix]

\* the floors of duration.rs:90-99, each taken once
Floors[d \in Decimals] ==
    [self   |-> d,
     fDay   |-> DFloor(in_unit(d, "Day")),
     fHour  |-> DFloor(in_unit(d, "Hour")),
     fMin   |-> DFloor(in_unit(d, "Minute")),
     fSec   |-> DFloor(in_unit(d, "Second")),
     fMilli |-> DFloor(in_unit(d, "Millisecond")),
     ns     |-> in_unit(d, "Nanosecond")]

FloorRecords ==
    [self : Decimals, fDay : Decimals, fHour : Decimals, fMin : Decimals,
     fSec : Decimals, fMilli : Decimals, ns : Decimals]

nil == DecimalFrom(QInt("i32", 0))
neg_one == DecimalFrom(QInt("i32", -1))

\* the locals of Display::fmt, duration.rs:90-104
Locals[f \in FloorRecords] ==
    [days    |-> f.fDay,
     hours   |-> DSub(f.fHour, DMul(f.fDay, Dec24)),
     minutes |-> DSub(f.fMin, DMul(f.fHour, Dec60)),
     seconds |-> DSub(f.fSec, DMul(f.fMin, Dec60)),
     milli   |-> DSub(f.fMilli, DMul(f.fSec, Dec1000)),
     nano    |-> DSub(f.ns, DMul(f.fMilli, DecMillion)),
     is_neg  |-> DLess(f.self, nil)]

LocalRecords ==
    [days : Decimals, hours : Decimals, minutes : Decimals, seconds : Decimals,
     milli : Decimals, nano : Decimals, is_neg : BOOLEAN]

\* the value a block prints for a component: `if is_neg && print_all`
Shown(v, is_neg, print_all) == IF is_neg /\ print_all THEN DMul(v, neg_one) ELSE v

\* a block entered for a nonzero component only
EntersNonzero(x, print_all) == DLess(nil, DAbs(x))

\* a block entered whatever its component and whatever was printed
EntersAlways(x, print_all) == TRUE

\* the condition of the hours, minutes, seconds and milliseconds blocks:
\* `if x.abs() > nil || print_all`
Enters(x, print_all) == DLess(nil, DAbs(x)) \/ print_all

\* the test of the milliseconds alone
MillisAreNil(milli, nano) == DAbs(milli) = nil

\* `if milli.abs() == nil && nano.abs() == nil`, duration.rs:132
StopsAtSeconds(milli, nano) == DAbs(milli) = nil /\ DAbs(nano) = nil

\* `if nano == nil || (is_neg && nano * neg_one <= nil)`, duration.rs:149
StopsAtMillis(nano, is_neg) == nano = nil \/ (is_neg /\ DLeq(DMul(nano, neg_one), nil))

\* the blocks of Display::fmt, duration.rs:106-172, on the locals c
Blocks[c \in LocalRecords] ==
    LET \* whether a block is entered, and print_all after it
        pa1 == DLess(nil, DAbs(c.days))
        do2 == Enters(c.hours, pa1)
        pa2 == pa1 \/ do2
        do3 == Enters(c.minutes, pa2)
        pa3 == pa2 \/ do3
        do4 == Enters(c.seconds, pa3)
        pa4 == pa3 \/ do4
        head == (IF pa1 THEN <<Comp(c.days, "days")>> ELSE <<>>)
                \o (IF do2 THEN <<Comp(Shown(c.hours, c.is_neg, pa1), "h")>> ELSE <<>>)
                \o (IF do3 THEN <<Comp(Shown(c.minutes, c.is_neg, pa2), "min")>> ELSE <<>>)
    IN  IF StopsAtSeconds(c.milli, c.nano)
        THEN head \o <<Comp(Shown(c.seconds, c.is_neg, pa3), "s")>>
        ELSE head
             \o (IF do4 THEN <<Comp(Shown(c.seconds, c.is_neg, pa3), "s")>> ELSE <<>>)
             \o (IF StopsAtMillis(c.nano, c.is_neg)
                 THEN <<Comp(Shown(c.milli, c.is_neg, pa4), "ms")>>
                 ELSE (IF Enters(c.milli, pa4)
                       THEN <<Comp(Shown(c.milli, c.is_neg, pa4), "ms")>> ELSE <<>>)
                      \o <<Comp(Shown(c.nano, c.is_neg, pa4), "ns")>>)

\* Display::fmt
DisplayFmt(d) == Blocks[Locals[Floors[d]]]

(***************************************************************************)
(* impl fmt::LowerExp for Duration: one f64 and one suffix.                *)
(***************************************************************************)
\* the f64 literals and constants of LowerExp::fmt, by their decimal digits
F64Digits ==
    {<<1, 5>>, <<1000000000, 0>>, <<1, 2>>, <<1000, 0>>, <<3, 0>>,
     <<SECONDS_PER_MINUTE, 0>>, <<SECONDS_PER_HOUR, 0>>, <<SECONDS_PER_DAY, 0>>}

F64Lits == [l \in F64Digits |-> RoundF64(Rat(FALSE, Magnitude(l[1]), NPow(10, l[2])))]

F64Lit(m, dec) == F64Lits[<<m, dec>>]

\* 3.0 * SECONDS_PER_MINUTE
ThreeMinutes == F64Mul(F64Lit(3, 0), F64Lit(SECONDS_PER_MINUTE, 0))

\* the branches of LowerExp::fmt, duration.rs:183-200, on seconds_f64
Branches[seconds_f64 \in Decimals] ==
    IF F64Less(F64Abs(seconds_f64), F64Lit(1, 5))
    THEN Comp(F64Mul(seconds_f64, F64Lit(1000000000, 0)), "ns")
    ELSE IF F64Less(F64Abs(seconds_f64), F64Lit(1, 2))
    THEN Comp(F64Mul(seconds_f64, F64Lit(1000, 0)), "ms")
    ELSE IF F64Less(F64Abs(seconds_f64), ThreeMinutes)
    THEN Comp(seconds_f64, "s")
    ELSE IF F64Less(F64Abs(seconds_f64), F64Lit(SECONDS_PER_HOUR, 0))
    THEN Comp(F64Div(seconds_f64, F64Lit(SECONDS_PER_MINUTE, 0)), "min")
    ELSE IF F64Less(F64Abs(seconds_f64), F64Lit(SECONDS_PER_DAY, 0))
    THEN Comp(F64Div(seconds_f64, F64Lit(SECONDS_PER_HOUR, 0)), "h")
    ELSE Comp(F64Div(seconds_f64, F64Lit(SECONDS_PER_DAY, 0)), "days")

\* LowerExp::fmt: self.0.to_f64(), then the branches
LowerExpFmt(d) == Branches[RoundF64(d)]

(***************************************************************************)
(* The state machine: a client holds one Duration, builds it with the      *)
(* constructors and operators of the module, and formats it.               *)
(***************************************************************************)
VARIABLES
    dur,    \* the stored seconds of the Duration the client holds
    terms,  \* how many unit terms were combined into it
    call,   \* the operation that produced dur, with its arguments and, for
            \* from_fraction, the Fraction constructor it called
    text    \* the last formatting of dur: the trait used and what it wrote

vars == <<dur, terms, call, text>>

\* how many terms an expression combines, and the ranges of from_fraction
MaxTerms == 2
MaxNum == 3
MaxDenom == 3

\* 1_286_495_254_000_000_123, the nanosecond count of duration.rs:391
GpsNanos == <<123, 0, 2540, 6495, 128>>

IntKinds == SignedKinds \cup UnsignedKinds

\* the integers i holds in kind: the sign and, for the 8-bit kinds, the width
Fits(kind, i) ==
    /\ kind \in UnsignedKinds => i >= 0
    /\ kind = "i8" => (i >= -128 /\ i <= 127)
    /\ kind = "u8" => i <= 255

\* 90_061_001_000_001 ns is 1 day 1 h 1 min 1 s 1 ms 1 ns, and
\* 59_999_999_999 ns is one nanosecond short of a minute
OneOfEach == <<1, 100, 610, 90>>
AlmostMinute == <<9999, 9999, 599>>

\* integers taken in every kind that holds them, and in i32 only
IntValues == {-7, 0, 10, 256}
I32Values == {-256, -5, -1, 1, 5}

\* the quantities any unit is multiplied by: integers, and floats by their
\* decimal digits (10.0, -7.0, 3.5, -3.5)
Quantities ==
    {QInt(kind, i) : <<kind, i>> \in {c \in IntKinds \X IntValues : Fits(c[1], c[2])}}
    \cup {QInt("i32", i) : i \in I32Values}
    \cup {QFloat(kind, md[1], md[2]) :
            <<kind, md>> \in FloatKinds \X {<<100, 1>>, <<-70, 1>>, <<35, 1>>, <<-35, 1>>}}

\* the large counts, which nanoseconds are multiplied by, in the kinds wide
\* enough for them
NanosecondCounts ==
    {[kind |-> kind, neg |-> FALSE, mant |-> n, dec |-> 0] :
        <<kind, n>> \in {"u64", "u128"} \X {GpsNanos, OneOfEach, AlmostMinute}}

\* the arguments of from_fraction over the whole i64 range: the small
\* integers and the two ends of the range
Numerators == {I64(i) : i \in (0 - MaxNum)..MaxNum} \cup {I64Min, I64Max}
Denominators == {I64(i) : i \in (0 - MaxDenom)..MaxDenom} \cup {I64Min, I64Max}

\* the products unit * q taken
Products == (TimeUnits \X Quantities) \cup ({"Nanosecond"} \X NanosecondCounts)

\* the quantities of the terms added to or subtracted from a Duration
Addends == {QInt("i32", 5), QFloat("f64", 35, 1)}

Rank(unit) ==
    CASE unit = "Day" -> 1 [] unit = "Hour" -> 2 [] unit = "Minute" -> 3
      [] unit = "Second" -> 4 [] unit = "Millisecond" -> 5 [] unit = "Nanosecond" -> 6

NoQuantity == QInt("i32", 0)
NoText == [fmt |-> "none", comps |-> <<>>]

\* the call made last: its arguments and, for from_fraction, the Fraction
\* constructor it calls and the magnitudes num_u and denom_u it hands over
Call(op, unit, q, num, denom) ==
    [op |-> op, unit |-> unit, q |-> q, num |-> num, denom |-> denom,
     ctor |-> IF op = "from_fraction" THEN from_fraction_ctor(num, denom) ELSE "none",
     num_u |-> AbsAsU128(num), denom_u |-> AbsAsU128(denom)]

\* the process ended by a panic: nothing is formatted, nothing runs after
Panicked == [fmt |-> "panic", comps |-> <<>>]

\* nothing is bound yet: the client starts from the zero Duration
Init ==
    /\ dur = from_seconds(DecimalFrom(QInt("i32", 0)))
    /\ terms = 0
    /\ call = Call("init", "Second", NoQuantity, I64(0), I64(0))
    /\ text = NoText

\* let d = unit * q
MulUnit(unit, q) ==
    /\ call.op = "init"
    /\ text = NoText
    /\ dur' = Mul(unit, q)
    /\ terms' = 1
    /\ call' = Call("mul", unit, q, I64(0), I64(0))
    /\ text' = NoText

\* let d = Duration::from_fraction(num, denom, unit)
FromFraction(num, denom, unit) ==
    /\ call.op = "init"
    /\ text = NoText
    /\ dur' = from_fraction(num, denom, unit)
    /\ terms' = 1
    /\ call' = Call("from_fraction", unit, NoQuantity, num, denom)
    /\ text' = NoText

\* the same call in a build with overflow checks, on an argument whose
\* abs() overflows: duration.rs:65-66 panics and no Duration is made
FromFractionPanics(num, denom, unit) ==
    /\ call.op = "init"
    /\ text = NoText
    /\ AbsOverflows(num) \/ AbsOverflows(denom)
    /\ call' = Call("panic", unit, NoQuantity, num, denom)
    /\ text' = Panicked
    /\ UNCHANGED <<dur, terms>>

\* d += unit * q, the terms of an expression running from coarse to fine.
\* Sums with a non-finite Duration are not modelled.
AddAssign(unit, q) ==
    /\ IsFinite(dur)
    /\ call.op # "init"
    /\ text = NoText
    /\ terms < MaxTerms
    /\ Rank(unit) > Rank(call.unit)
    /\ dur' = Add(dur, Mul(unit, q))
    /\ terms' = terms + 1
    /\ call' = Call("add", unit, q, I64(0), I64(0))
    /\ text' = NoText

\* d -= unit * q
SubAssign(unit, q) ==
    /\ IsFinite(dur)
    /\ call.op # "init"
    /\ text = NoText
    /\ terms < MaxTerms
    /\ Rank(unit) > Rank(call.unit)
    /\ dur' = Sub(dur, Mul(unit, q))
    /\ terms' = terms + 1
    /\ call' = Call("sub", unit, q, I64(0), I64(0))
    /\ text' = NoText

\* d += unit
AddAssignUnit(unit) ==
    /\ IsFinite(dur)
    /\ call.op # "init"
    /\ text = NoText
    /\ terms < MaxTerms
    /\ Rank(unit) > Rank(call.unit)
    /\ dur' = AddUnit(dur, unit)
    /\ terms' = terms + 1
    /\ call' = Call("add_unit", unit, NoQuantity, I64(0), I64(0))
    /\ text' = NoText

\* d -= unit
SubAssignUnit(unit) ==
    /\ IsFinite(dur)
    /\ call.op # "init"
    /\ text = NoText
    /\ terms < MaxTerms
    /\ Rank(unit) > Rank(call.unit)
    /\ dur' = SubUnit(dur, unit)
    /\ terms' = terms + 1
    /\ call' = Call("sub_unit", unit, NoQuantity, I64(0), I64(0))
    /\ text' = NoText

\* format!("{}", d); the rendering of a non-finite Duration is not modelled
Display ==
    /\ IsFinite(dur)
    /\ text = NoText
    /\ text' = [fmt |-> "display", comps |-> DisplayFmt(dur)]
    /\ UNCHANGED <<dur, terms, call>>

\* format!("{:e}", d)
LowerExp ==
    /\ text = NoText
    /\ text' = [fmt |-> "lowerexp", comps |-> <<LowerExpFmt(dur)>>]
    /\ UNCHANGED <<dur, terms, call>>

Next ==
    \/ \E p \in Products : MulUnit(p[1], p[2])
    \/ \E num \in (0 - MaxNum)..MaxNum, denom \in (0 - MaxDenom)..MaxDenom, unit \in TimeUnits :
          FromFraction(I64(num), I64(denom), unit)
    \/ \E unit \in TimeUnits, q \in Addends : AddAssign(unit, q)
    \/ \E unit \in TimeUnits, q \in Addends : SubAssign(unit, q)
    \/ \E unit \in TimeUnits : AddAssignUnit(unit)
    \/ \E unit \in TimeUnits : SubAssignUnit(unit)
    \/ Display
    \/ LowerExp

Spec == Init /\ [][Next]_vars

\* from_fraction alone, called over the whole i64 range in a build with
\* and in a build without overflow checks
NextI64 ==
    \/ \E num \in Numerators, denom \in Denominators, unit \in TimeUnits :
          FromFraction(num, denom, unit)
    \/ \E num \in Numerators, denom \in Denominators, unit \in TimeUnits :
          FromFractionPanics(num, denom, unit)

SpecI64 == Init /\ [][NextI64]_vars

(***************************************************************************)
(* The claims.                                                             *)
(***************************************************************************)
Suffixes == <<"days", "h", "min", "s", "ms", "ns">>

\* whether the text holds a component with this suffix
Prints(suffix) == \E i \in 1..Len(text.comps) : text.comps[i].unit = suffix

\* C1: a negative Duration rendered by Display::fmt with more than one
\* component shows exactly one '-', on the first component; every later
\* component is printed as a non-negative magnitude.
C1_SingleSign ==
    (text.fmt = "display" /\ DLess(dur, nil) /\ Len(text.comps) > 1)
        => /\ text.comps[1].val.neg
           /\ \A i \in 2..Len(text.comps) : ~text.comps[i].val.neg

\* the rendering with a '-' put in front: the first component negated
Mirror(comps) == [comps EXCEPT ![1] = Comp(DNeg(comps[1].val), comps[1].unit)]

\* C2: the default rendering of a negative Duration is '-' followed by the
\* default rendering of its absolute value: the component magnitudes are
\* those of the absolute value.
C2_NegativeMirrorsAbsolute ==
    (text.fmt = "display" /\ DLess(dur, nil))
        => text.comps = Mirror(DisplayFmt(DNeg(dur)))

\* the nanoseconds in one unit of a suffix, and the integer reference
\* decomposition of a nanosecond count N
NanosIn(suffix) ==
    CASE suffix = "days" -> NMul(NFromInt(SECONDS_PER_DAY), NPow(10, 9))
      [] suffix = "h"    -> NMul(NFromInt(SECONDS_PER_HOUR), NPow(10, 9))
      [] suffix = "min"  -> NMul(NFromInt(SECONDS_PER_MINUTE), NPow(10, 9))
      [] suffix = "s"    -> NPow(10, 9)
      [] suffix = "ms"   -> NPow(10, 6)
      [] suffix = "ns"   -> NOne

Reference(N, suffix) ==
    CASE suffix = "days" -> NDiv(N, NanosIn("days"))
      [] suffix = "h"    -> NMod(NDiv(N, NanosIn("h")), NFromInt(24))
      [] suffix = "min"  -> NMod(NDiv(N, NanosIn("min")), NFromInt(60))
      [] suffix = "s"    -> NMod(NDiv(N, NanosIn("s")), NFromInt(60))
      [] suffix = "ms"   -> NMod(NDiv(N, NanosIn("ms")), NFromInt(1000))
      [] suffix = "ns"   -> NMod(N, NanosIn("ms"))

\* C3: TimeUnit::Nanosecond * N, N a non-negative integer, is rendered with
\* every printed component equal to the integer reference decomposition of
\* N, every nonzero reference component printed, and the count of
\* duration.rs:391 printed with all six components.
C3_NanosecondDecomposition ==
    (text.fmt = "display" /\ call.op = "mul" /\ call.unit = "Nanosecond"
        /\ call.q.kind \in IntKinds /\ ~call.q.neg)
        => /\ \A i \in 1..Len(text.comps) :
                 text.comps[i].val
                     = Rat(FALSE, Reference(call.q.mant, text.comps[i].unit), NOne)
           /\ \A j \in 1..Len(Suffixes) :
                 Reference(call.q.mant, Suffixes[j]) # <<>> => Prints(Suffixes[j])
           /\ call.q.mant = GpsNanos
                 => [i \in 1..Len(text.comps) |-> text.comps[i].unit] = Suffixes

C3_Witness ==
    /\ text.fmt = "display" /\ call.op = "mul" /\ call.unit = "Nanosecond"
    /\ call.q.mant = GpsNanos
    /\ Len(text.comps) = 6
    /\ text.comps[1] = Comp(DInt(14889), "days")
    /\ text.comps[5] = Comp(DInt(0), "ms")
    /\ text.comps[6] = Comp(DInt(123), "ns")

\* C4: for a nonzero denominator, from_fraction(n, d, u) equals
\* from_fraction(-n, -d, u), and from_fraction(n, -d, u) holds the negated
\* seconds of from_fraction(n, d, u).
C4_SignSymmetry ==
    (call.op = "from_fraction" /\ call.denom.mag # <<>>)
        => /\ dur = from_fraction(I64Neg(call.num), I64Neg(call.denom), call.unit)
           /\ from_fraction(call.num, I64Neg(call.denom), call.unit) = DNeg(dur)

C4_Witness ==
    /\ call.op = "from_fraction"
    /\ IsNegative(call.num) /\ IsPositive(call.denom)
    /\ dur.neg /\ dur.den # NOne
    /\ from_fraction(I64Neg(call.num), call.denom, call.unit) = DNeg(dur)

\* C5: from_fraction with a zero denominator never returns a Duration
\* holding an infinite or NaN-like value.
C5_ZeroDenominatorSignalled ==
    ~(call.op = "from_fraction" /\ call.denom.mag = <<>> /\ dur.k \in {"inf", "nan"})

\* two quantities of the same numeric value
SameValue(q1, q2) ==
    /\ q1.neg = q2.neg
    /\ NMul(q1.mant, NPow(10, q2.dec)) = NMul(q2.mant, NPow(10, q1.dec))

\* C6: unit * v gives the same Duration in every numeric kind that holds
\* the value v, integer or floating.
C6_RepresentationIndependence ==
    call.op = "mul"
        => \A q2 \in Quantities \cup NanosecondCounts :
              SameValue(call.q, q2) => Mul(call.unit, q2) = dur

C6_Witness ==
    /\ call.op = "mul" /\ call.unit = "Day" /\ call.q.kind = "f64"
    /\ dur = DInt(864000)
    /\ \E q2 \in Quantities :
          q2.kind \in IntKinds /\ SameValue(call.q, q2) /\ Mul("Day", q2) = dur

\* the unit printed after days, hours and minutes
Finer(suffix) ==
    CASE suffix = "days" -> "h" [] suffix = "h" -> "min" [] suffix = "min" -> "s"

\* C7: in the default rendering no zero component comes first unless the
\* Duration is zero, which renders as "0 s"; days are printed only when
\* there is at least one; and days, hours and minutes are each followed by
\* the next finer unit, so that every unit down to seconds is printed.
C7_LeadingZeroSuppression ==
    text.fmt = "display"
        => /\ IsZero(text.comps[1].val) => IsZero(dur)
           /\ IsZero(dur) => text.comps = <<Comp(nil, "s")>>
           /\ Prints("days") => DLeq(DInt(SECONDS_PER_DAY), DAbs(dur))
           /\ \A i \in 1..Len(text.comps) :
                 text.comps[i].unit \in {"days", "h", "min"}
                     => /\ i < Len(text.comps)
                        /\ text.comps[i + 1].unit = Finer(text.comps[i].unit)

C7_Witness ==
    /\ text.fmt = "display"
    /\ text.comps = <<Comp(DInt(10), "days"), Comp(DInt(5), "h"),
                      Comp(nil, "min"), Comp(nil, "s")>>

\* C8: a Duration of whole seconds (millisecond and nanosecond remainders
\* both zero) is rendered ending with its seconds remainder and "s", with
\* no "ms" and no "ns"; any other Duration is rendered ending with an "ms"
\* or "ns" component.
C8_SubSecondSuppression ==
    text.fmt = "display"
        => IF dur.den = NOne
           THEN /\ text.comps[Len(text.comps)].unit = "s"
                /\ DAbs(text.comps[Len(text.comps)].val)
                       = Rat(FALSE, NMod(dur.num, NFromInt(60)), NOne)
                /\ ~Prints("ms") /\ ~Prints("ns")
           ELSE text.comps[Len(text.comps)].unit \in {"ms", "ns"}

C8_Witness ==
    /\ text.fmt = "display"
    /\ dur = DInt(3601)
    /\ text.comps = <<Comp(DInt(1), "h"), Comp(nil, "min"), Comp(DInt(1), "s")>>

\* the unit LowerExp::fmt chooses for an f64 magnitude a, and the value it
\* prints for the f64 seconds s in that unit
ChosenUnit(a) ==
    IF DLess(a, F64Lit(1, 5)) THEN "ns"
    ELSE IF DLess(a, F64Lit(1, 2)) THEN "ms"
    ELSE IF DLess(a, DInt(180)) THEN "s"
    ELSE IF DLess(a, DInt(3600)) THEN "min"
    ELSE IF DLess(a, DInt(86400)) THEN "h"
    ELSE "days"

Scaled(s, suffix) ==
    CASE suffix = "ns"   -> RoundF64(DMul(s, DInt(1000000000)))
      [] suffix = "ms"   -> RoundF64(DMul(s, DInt(1000)))
      [] suffix = "s"    -> s
      [] suffix = "min"  -> RoundF64(DDiv(s, DInt(60)))
      [] suffix = "h"    -> RoundF64(DDiv(s, DInt(3600)))
      [] suffix = "days" -> RoundF64(DDiv(s, DInt(86400)))

\* C9: LowerExp::fmt prints one value with one suffix.  For a finite
\* Duration the suffix is chosen from the magnitude of the seconds as an f64
\* with strict upper bounds 1e-5, 1e-2, 180, 3600 and 86400, a value on a
\* bound taking the coarser unit, the value is the seconds scaled to that
\* unit, and it keeps the sign of the Duration; a non-finite Duration is
\* below no bound and takes "days".
C9_LowerExpThresholds ==
    text.fmt = "lowerexp"
        => /\ Len(text.comps) = 1
           /\ IsFinite(dur)
                 => LET s == RoundF64(dur)
                    IN  /\ text.comps[1].unit = ChosenUnit(DAbs(s))
                        /\ text.comps[1].val = Scaled(s, text.comps[1].unit)
                        /\ text.comps[1].val.neg = dur.neg
           /\ ~IsFinite(dur) => text.comps[1].unit = "days" /\ ~IsFinite(text.comps[1].val)

C9_Witness ==
    /\ text.fmt = "lowerexp"
    /\ dur = DInt(180)
    /\ text.comps = <<Comp(DInt(3), "min")>>

\* C10: from_fraction calls Fraction::new_neg exactly when one of numerator
\* and denominator is negative and the other is not (denominator nonzero).
C10_NegativeCtorIffOneNegative ==
    (call.op = "from_fraction" /\ call.denom.mag # <<>>)
        => (call.ctor = "new_neg" <=> (IsNegative(call.num) # IsNegative(call.denom)))

\* the position of the component with a suffix, 0 when it is not printed
Position(suffix) ==
    IF Prints(suffix)
    THEN CHOOSE i \in 1..Len(text.comps) : text.comps[i].unit = suffix
    ELSE 0

\* a Duration that is not a whole number of seconds: its millisecond or
\* nanosecond remainder is nonzero
HasSubSecondRemainder == IsFinite(dur) /\ dur.den # NOne

\* C11 as stated: a Duration with a nonzero millisecond or nanosecond
\* remainder is always rendered with its seconds component, also when the
\* seconds are zero and nothing coarser has been printed.
C11_SecondsAlwaysPrinted ==
    (text.fmt = "display" /\ HasSubSecondRemainder) => Prints("s")

\* C11 amended: a Duration with a nonzero millisecond or nanosecond
\* remainder is rendered with its seconds component, directly in front of
\* the sub-second components, exactly when it is at least one second in
\* magnitude (seconds nonzero or a coarser unit printed); the milliseconds
\* in front of a nanosecond component are printed exactly when it is at
\* least one millisecond in magnitude; below one second the rendering
\* starts at the sub-second components.
C11_SecondsPrintedOnceStarted ==
    (text.fmt = "display" /\ HasSubSecondRemainder)
        => /\ Prints("s") <=> DLeq(DecOne, DAbs(dur))
           /\ Prints("s")
                 => /\ Position("s") < Len(text.comps)
                    /\ text.comps[Position("s") + 1].unit \in {"ms", "ns"}
           /\ Prints("ns") => (Prints("ms") <=> DLeq(DecMilli, DAbs(dur)))
           /\ Prints("ns") /\ Prints("ms") => Position("ns") = Position("ms") + 1
           /\ ~Prints("s") => text.comps[1].unit \in {"ms", "ns"}

C11_Witness ==
    /\ text.fmt = "display" /\ HasSubSecondRemainder
    /\ text.comps = <<Comp(DInt(3), "ms"), Comp(DInt(500000), "ns")>>

\* C12: from_fraction is total over the i64 range of the numerator and
\* the nonzero denominator: it returns for every input, and the magnitudes
\* it hands to the Fraction constructor are |num| and |denom|, also for
\* i64::MIN, so that the Duration is |num| / |denom| units in magnitude.
C12_MagnitudesAreAbsoluteValues ==
    /\ call.op # "panic"
    /\ (call.op = "from_fraction" /\ call.denom.mag # <<>>)
          => /\ call.num_u = call.num.mag
             /\ call.denom_u = call.denom.mag
             /\ DAbs(dur) = DMul(FractionNew(call.num.mag, call.denom.mag),
                                 in_seconds(call.unit))

=============================================================================
